---- MODULE Spec2Model ----
(***************************************************************************)
(* Byte pair encoding as built up in the notebook series: the category     *)
(* regex that cuts text into chunks, get_stats, replace_pairs, the merge   *)
(* loop with its bookkeeping (tokens, merges), and the encode and decode   *)
(* entry points of the design document on top of them.                     *)
(***************************************************************************)
EXTENDS Integers, Sequences, FiniteSets, TLC

\* ------------------------------------------------------------------ bounds

\* Longest enumerated training text, in bytes.
MaxLen == 4
\* Largest number of loop iterations asked for (target_vocab_size - 256).
MaxMerges == 4
\* Longest enumerated text handed to encode, in bytes.
MaxInput == 2

\* The first ID given to a merged pair; the byte values lie below it.
FirstMergeId == 256

\* Bytes of the enumerated texts: space, 'a', 'b'.
Alphabet == {32, 97, 98}

\* The notebook's own training texts, as bytes.
ExampleChar == <<97, 98, 97, 98, 99, 97, 98, 99, 100>>
ExampleByte ==
    <<240, 159, 152, 132, 240, 159, 152, 132, 32,
      97, 98, 97, 98, 99, 97, 98, 99, 100, 32,
      240, 159, 152, 132, 240, 159, 152, 132>>
ExampleDog ==
    <<109, 121, 32, 100, 111, 103, 46, 32, 121, 111, 117, 114, 32,
      100, 111, 103, 46>>


\* The design document's rank example: 'ababbcbc' teaches (a,b) and then
\* (b,c), and 'abc' is the fresh chunk to encode.
ExampleRank == <<97, 98, 97, 98, 98, 99, 98, 99>>
ExampleAbc == <<97, 98, 99>>

\* 'aa b b aa': (a,a) and ( ,b) both occur twice, in different chunks.
ExampleTie == <<97, 97, 32, 98, 32, 98, 32, 97, 97>>

Texts(n) == UNION {[1..k -> Alphabet] : k \in 0..n}
Corpora ==
    Texts(MaxLen) \cup {ExampleChar, ExampleByte, ExampleDog, ExampleRank, ExampleTie}
Targets == FirstMergeId..(FirstMergeId + MaxMerges)
Inputs == Texts(MaxInput) \cup {ExampleAbc}

\* Bytes of the texts that exercise the Segmenter: tab, space, apostrophe,
\* '.', '1', 'a', 's'.
SegAlphabet == {9, 32, 39, 46, 49, 97, 115}
SegTexts ==
    UNION {[1..k -> SegAlphabet] : k \in 0..MaxLen} \cup {ExampleDog, ExampleByte}

\* Targets on both sides of the smallest valid one.
AnyTargets == (FirstMergeId - MaxMerges)..(FirstMergeId + MaxMerges)

\* Token sequences handed to decode directly: a byte, the first two merged
\* IDs, and an ID training never reaches.
TokenIds == {97, FirstMergeId, FirstMergeId + 1, FirstMergeId + MaxMerges}
TokenSeqs == UNION {[1..k -> TokenIds] : k \in 0..MaxInput}

\* ------------------------------------------------------------- Segmenter

IsSpace(b) == b \in {9, 10, 11, 12, 13, 32}
IsLetter(b) == b \in (65..90) \cup (97..122)
IsNumeral(b) == b \in 48..57

\* The character class of a byte: "s" \s, "L" \p{L}, "N" \p{N}, "O" the rest.
ClassOf(b) ==
    IF IsSpace(b) THEN "s"
    ELSE IF IsLetter(b) THEN "L"
    ELSE IF IsNumeral(b) THEN "N"
    ELSE "O"

\* The last index of the run of class cls that starts at i (i - 1: no run).
RECURSIVE RunEnd(_, _, _)
RunEnd(s, i, cls) ==
    IF i <= Len(s) /\ ClassOf(s[i]) = cls THEN RunEnd(s, i + 1, cls) ELSE i - 1

HasAt(s, i, w) ==
    /\ i + Len(w) - 1 <= Len(s)
    /\ \A k \in 1..Len(w) : s[i + k - 1] = w[k]

\* 's|'t|'re|'ve|'m|'ll|'d, in this order; 0: none matches at i.
contraction_end(s, i) ==
    IF HasAt(s, i, <<39, 115>>) THEN i + 1
    ELSE IF HasAt(s, i, <<39, 116>>) THEN i + 1
    ELSE IF HasAt(s, i, <<39, 114, 101>>) THEN i + 2
    ELSE IF HasAt(s, i, <<39, 118, 101>>) THEN i + 2
    ELSE IF HasAt(s, i, <<39, 109>>) THEN i + 1
    ELSE IF HasAt(s, i, <<39, 108, 108>>) THEN i + 2
    ELSE IF HasAt(s, i, <<39, 100>>) THEN i + 1
    ELSE 0

\* A variant of prefixed_run_end: "\s?X+", any one whitespace character
\* before the run.
prefixed_run_end_any_space(s, i, cls) ==
    LET k == IF IsSpace(s[i]) /\ i < Len(s) /\ ClassOf(s[i + 1]) = cls
             THEN i + 1 ELSE i
    IN  IF ClassOf(s[k]) = cls THEN RunEnd(s, k, cls) ELSE 0

\* " ?X+" for a class X: an optional literal space, then the run; 0: no match.
prefixed_run_end(s, i, cls) ==
    LET k == IF s[i] = 32 /\ i < Len(s) /\ ClassOf(s[i + 1]) = cls
             THEN i + 1 ELSE i
    IN  IF ClassOf(s[k]) = cls THEN RunEnd(s, k, cls) ELSE 0

\* "\s+(?!\S)": the whitespace run, given back one character when a
\* non-whitespace character follows it; 0: no match.
space_not_followed_end(s, i) ==
    LET e == RunEnd(s, i, "s")
    IN  IF e < i THEN 0
        ELSE IF e = Len(s) THEN e
        ELSE IF e - 1 >= i THEN e - 1
        ELSE 0

\* A variant of match_end: the alternative " ?[^\s\p{L}\p{N}]+" left out.
match_end_no_other(s, i) ==
    LET c == contraction_end(s, i)
        l == prefixed_run_end(s, i, "L")
        n == prefixed_run_end(s, i, "N")
        w == space_not_followed_end(s, i)
    IN  IF c # 0 THEN c
        ELSE IF l # 0 THEN l
        ELSE IF n # 0 THEN n
        ELSE IF w # 0 THEN w
        ELSE RunEnd(s, i, "s")

\* A variant of match_end: "\s+" written before "\s+(?!\S)".
match_end_space_first(s, i) ==
    LET c == contraction_end(s, i)
        l == prefixed_run_end(s, i, "L")
        n == prefixed_run_end(s, i, "N")
        o == prefixed_run_end(s, i, "O")
        w == space_not_followed_end(s, i)
    IN  IF c # 0 THEN c
        ELSE IF l # 0 THEN l
        ELSE IF n # 0 THEN n
        ELSE IF o # 0 THEN o
        ELSE IF RunEnd(s, i, "s") >= i THEN RunEnd(s, i, "s")
        ELSE w

\* The end of the match of the alternation at i: the first alternative, in
\* the order written, that matches there; 0: none.
match_end(s, i) ==
    LET c == contraction_end(s, i)
        l == prefixed_run_end(s, i, "L")
        n == prefixed_run_end(s, i, "N")
        o == prefixed_run_end(s, i, "O")
        w == space_not_followed_end(s, i)
    IN  IF c # 0 THEN c
        ELSE IF l # 0 THEN l
        ELSE IF n # 0 THEN n
        ELSE IF o # 0 THEN o
        ELSE IF w # 0 THEN w
        ELSE RunEnd(s, i, "s")

\* re.findall(categories, text) from position i on: the matches, in order;
\* a character no alternative matches is skipped.
RECURSIVE findall_from(_, _)
findall_from(s, i) ==
    IF i > Len(s) THEN <<>>
    ELSE LET e == match_end(s, i)
         IN  IF e >= i
             THEN <<SubSeq(s, i, e)>> \o findall_from(s, e + 1)
             ELSE findall_from(s, i + 1)

categories(text) == findall_from(text, 1)

\* ------------------------------------------------------------ PairCounter

\* A Python dict, in insertion order: a sequence of entries [k |-> key,
\* v |-> value] with no key twice.
dict_has(d, key) == \E n \in 1..Len(d) : d[n].k = key

dict_get(d, key, default) ==
    IF dict_has(d, key)
    THEN d[CHOOSE n \in 1..Len(d) : d[n].k = key].v
    ELSE default

\* A variant of dict_set: a store that puts a new key first.
dict_set_front(d, key, value) ==
    IF dict_has(d, key)
    THEN LET n == CHOOSE m \in 1..Len(d) : d[m].k = key
         IN  SubSeq(d, 1, n - 1) \o <<[k |-> key, v |-> value]>>
                 \o SubSeq(d, n + 1, Len(d))
    ELSE <<[k |-> key, v |-> value]>> \o d

\* d[key] = value: an existing key keeps its place, a new one goes last.
dict_set(d, key, value) ==
    IF dict_has(d, key)
    THEN LET n == CHOOSE m \in 1..Len(d) : d[m].k = key
         IN  SubSeq(d, 1, n - 1) \o <<[k |-> key, v |-> value]>>
                 \o SubSeq(d, n + 1, Len(d))
    ELSE Append(d, [k |-> key, v |-> value])

\* The loop of get_stats over one sequence, from index i on, adding to stats.
\* (Here and below, an intermediate value is bound by x \in {value}, which
\* computes it once, and the result is picked from the one-element set.)
RECURSIVE count_pairs(_, _, _)
count_pairs(chars, i, stats) ==
    IF i > Len(chars) - 1 THEN stats
    ELSE LET pair == <<chars[i], chars[i + 1]>>
         IN  CHOOSE result \in
                 {count_pairs(chars, i + 1, updated) :
                     updated \in {dict_set(stats, pair, dict_get(stats, pair, 0) + 1)}} :
                 TRUE

\* The chunks one after the other, as one sequence.
RECURSIVE Flatten(_)
Flatten(seqs) ==
    IF seqs = <<>> THEN <<>> ELSE Head(seqs) \o Flatten(Tail(seqs))

\* A variant of count_chunks: the chunks joined into one sequence and counted
\* as one.
count_chunks_joined(chunks, c, stats) == count_pairs(Flatten(chunks), 1, stats)

\* The same loop over the chunks in order, one stats dictionary for all.
RECURSIVE count_chunks(_, _, _)
count_chunks(chunks, c, stats) ==
    IF c > Len(chunks) THEN stats
    ELSE CHOOSE result \in
             {count_chunks(chunks, c + 1, counted) :
                 counted \in {count_pairs(chunks[c], 1, stats)}} :
             TRUE

\* An entry put into a list sorted by count, descending, behind its equals.
RECURSIVE insert_desc(_, _)
insert_desc(sorted, item) ==
    IF sorted = <<>> THEN <<item>>
    ELSE IF Head(sorted).v >= item.v
         THEN <<Head(sorted)>> \o insert_desc(Tail(sorted), item)
         ELSE <<item>> \o sorted

\* The first n entries of items, sorted by count, descending; stable.
RECURSIVE sorted_prefix(_, _)
sorted_prefix(items, n) ==
    IF n = 0 THEN <<>>
    ELSE CHOOSE result \in
             {insert_desc(front, items[n]) :
                 front \in {sorted_prefix(items, n - 1)}} :
             TRUE

\* sorted(stats.items(), key=lambda item: item[1], reverse=True)
sorted_desc(items) == sorted_prefix(items, Len(items))

\* A variant of stats_gt_1: the filter written v >= 1, which keeps every pair.
stats_ge_1(stats) == SelectSeq(stats, LAMBDA e : e.v >= 1)

\* stats_gt_1 = {k: v for k, v in stats.items() if v > 1}
stats_gt_1(stats) == SelectSeq(stats, LAMBDA e : e.v > 1)

\* get_stats of the byte-level post: every pair, sorted by count.
get_stats_all(chunks) ==
    CHOOSE result \in
        {sorted_desc(stats) : stats \in {count_chunks(chunks, 1, <<>>)}} : TRUE

\* get_stats of the training loop: the pairs that occur more than once.
get_stats(chunks) == stats_gt_1(get_stats_all(chunks))

\* One worker's table added to the aggregate, entry by entry from k on.
RECURSIVE merge_table(_, _, _)
merge_table(acc, table, k) ==
    IF k > Len(table) THEN acc
    ELSE merge_table(
             dict_set(acc, table[k].k, dict_get(acc, table[k].k, 0) + table[k].v),
             table, k + 1)

\* A variant of aggregate_from: the tables added in the order the workers
\* delivered them.
RECURSIVE aggregate_as_delivered(_, _, _)
aggregate_as_delivered(counted, c, acc) ==
    IF c > Len(counted) THEN acc
    ELSE aggregate_as_delivered(counted, c + 1,
             merge_table(acc, counted[c].stats, 1))

\* The per-chunk tables added up in chunk order, from chunk c on, whatever
\* the order the workers delivered them in.
RECURSIVE aggregate_from(_, _, _)
aggregate_from(counted, c, acc) ==
    IF c > Len(counted) THEN acc
    ELSE aggregate_from(counted, c + 1,
             merge_table(acc,
                 counted[CHOOSE m \in 1..Len(counted) : counted[m].chunk = c].stats,
                 1))

\* The aggregate table, sorted by count as get_stats sorts it.
aggregate(counted) == sorted_desc(aggregate_from(counted, 1, <<>>))

\* max(stats, key=stats.get): the first key, in the dictionary's order,
\* whose count no other key's count exceeds.
RECURSIVE max_from(_, _, _)
max_from(stats, n, best) ==
    IF n > Len(stats) THEN best.k
    ELSE CHOOSE result \in
             {max_from(stats, n + 1, better) :
                 better \in {IF stats[n].v > best.v THEN stats[n] ELSE best}} :
             TRUE

\* A variant of max_key: the comparison written >=, so the last of the
\* pairs with the highest count wins.
RECURSIVE max_from_last(_, _, _)
max_from_last(stats, n, best) ==
    IF n > Len(stats) THEN best.k
    ELSE CHOOSE result \in
             {max_from_last(stats, n + 1, better) :
                 better \in {IF stats[n].v >= best.v THEN stats[n] ELSE best}} :
             TRUE

max_key_last(stats) == max_from_last(stats, 2, stats[1])

\* A variant of max_key: min(stats, key=stats.get), the first key whose
\* count is the lowest.
RECURSIVE min_from(_, _, _)
min_from(stats, n, best) ==
    IF n > Len(stats) THEN best.k
    ELSE CHOOSE result \in
             {min_from(stats, n + 1, better) :
                 better \in {IF stats[n].v < best.v THEN stats[n] ELSE best}} :
             TRUE

min_key(stats) == min_from(stats, 2, stats[1])

max_key(stats) == max_from(stats, 2, stats[1])

\* A variant of max_choices: the counts kept in an unordered table, whose
\* iteration order decides among the pairs with the highest count.
any_max_choices(stats) ==
    {stats[n].k : n \in {m \in 1..Len(stats) : \A o \in 1..Len(stats) : stats[o].v <= stats[m].v}}

\* The pairs the selection may return for one stats dictionary.
max_choices(stats) == {max_key(stats)}

\* ----------------------------------------------------------- replace_pairs

RECURSIVE replace_from(_, _, _, _)
replace_from(text, i, pair, idx) ==
    IF ~(i <= Len(text)) THEN <<>>
    ELSE IF text[i] = pair[1] /\ i < Len(text) /\ text[i + 1] = pair[2]
         THEN <<idx>> \o replace_from(text, i + 2, pair, idx)
         ELSE <<text[i]>> \o replace_from(text, i + 1, pair, idx)

\* A variant of replace_pairs: the loop written while i < len(text) - 1,
\* which never copies the last symbol.
RECURSIVE replace_from_short(_, _, _, _)
replace_from_short(text, i, pair, idx) ==
    IF ~(i <= Len(text) - 1) THEN <<>>
    ELSE IF text[i] = pair[1] /\ i < Len(text) /\ text[i + 1] = pair[2]
         THEN <<idx>> \o replace_from_short(text, i + 2, pair, idx)
         ELSE <<text[i]>> \o replace_from_short(text, i + 1, pair, idx)

replace_pairs_short(text, pair, idx) == replace_from_short(text, 1, pair, idx)

\* A variant of replace_pairs: only the first occurrence is replaced.
RECURSIVE replace_first_from(_, _, _, _)
replace_first_from(text, i, pair, idx) ==
    IF ~(i <= Len(text)) THEN <<>>
    ELSE IF text[i] = pair[1] /\ i < Len(text) /\ text[i + 1] = pair[2]
         THEN <<idx>> \o SubSeq(text, i + 2, Len(text))
         ELSE <<text[i]>> \o replace_first_from(text, i + 1, pair, idx)

replace_pairs_first(text, pair, idx) == replace_first_from(text, 1, pair, idx)

\* A variant of replace_pairs: after a replacement the scan moves on by one
\* symbol, so that occurrences sharing a symbol are both replaced.
RECURSIVE replace_from_overlapping(_, _, _, _)
replace_from_overlapping(text, i, pair, idx) ==
    IF ~(i <= Len(text)) THEN <<>>
    ELSE IF text[i] = pair[1] /\ i < Len(text) /\ text[i + 1] = pair[2]
         THEN <<idx>> \o replace_from_overlapping(text, i + 1, pair, idx)
         ELSE <<text[i]>> \o replace_from_overlapping(text, i + 1, pair, idx)

replace_pairs_overlapping(text, pair, idx) ==
    replace_from_overlapping(text, 1, pair, idx)

replace_pairs(text, pair, idx) == replace_from(text, 1, pair, idx)

\* replace_pairs on every chunk, each on its own.
replace_chunks(chunks, pair, idx) ==
    [c \in 1..Len(chunks) |-> replace_pairs(chunks[c], pair, idx)]

\* ------------------------------------------------------------- Vocabulary

SetMin(S) == CHOOSE m \in S : \A n \in S : m <= n

\* list(sorted(set(values)))
RECURSIVE sorted_set(_)
sorted_set(S) ==
    IF S = {} THEN <<>>
    ELSE CHOOSE result \in
             {<<least>> \o sorted_set(S \ {least}) : least \in {SetMin(S)}} :
             TRUE

Range(s) == {s[n] : n \in 1..Len(s)}

\* The initial vocabulary: the 256 byte values, each its own expansion.
byte_vocab == [s \in 0..(FirstMergeId - 1) |-> <<s>>]

\* A variant of next_idx: the first merge's value, never advanced.
next_idx_fixed(vocab) == FirstMergeId

\* A variant of next_idx: one past the first value not yet in use.
next_idx_skip(vocab) ==
    SetMin((FirstMergeId..(FirstMergeId + Cardinality(DOMAIN vocab))) \ DOMAIN vocab) + 1

\* The first value not yet in use, from 256 on.
next_idx(vocab) == SetMin((FirstMergeId..(FirstMergeId + Cardinality(DOMAIN vocab))) \ DOMAIN vocab)

\* A variant of expansion: pair[0] alone.
expansion_left(vocab, pair) == vocab[pair[1]]

\* A variant of expansion: pair[1] + pair[0].
expansion_swapped(vocab, pair) == vocab[pair[2]] \o vocab[pair[1]]

\* pair[0] + pair[1]: the merged token is its left part followed by its right.
expansion(vocab, pair) == vocab[pair[1]] \o vocab[pair[2]]

vocab_add(vocab, idx, pair) ==
    [s \in DOMAIN vocab \cup {idx} |->
        IF s = idx THEN expansion(vocab, pair) ELSE vocab[s]]

\* ----------------------------------------------------------- MergeTrainer

\* num_merges for a target vocabulary size.
num_merges(target) == target - FirstMergeId

\* A variant of loop_continues: range(num_merges + 1).
loop_continues_inclusive(i, n) == i <= n

\* for _ in range(num_merges): whether iteration i (from 0) runs.
loop_continues(i, n) == i < n

\* i after one iteration.
next_iteration(i) == i + 1

\* A variant of start_run: the text is not cut into chunks but trained on as
\* one sequence.
start_run_unsegmented(text) ==
    [text_values |-> <<text>>,
     tokens |-> sorted_set(Range(text)),
     vocab |-> byte_vocab,
     merges |-> <<>>,
     i |-> 0,
     pc |-> "train"]

\* The state of one training run before its first iteration.
start_run(text) ==
    [text_values |-> categories(text),
     tokens |-> sorted_set(Range(text)),
     vocab |-> byte_vocab,
     merges |-> <<>>,
     i |-> 0,
     pc |-> "train"]

\* A variant of merge_pair: the iteration's results are not stored, and the
\* pass starts over on the same state.
merge_pair_discarded(r, pair) == r

\* A variant of merge_pair: the new symbol is written into the text and the
\* merge list, and never entered in the vocabulary.
merge_pair_unregistered(r, pair) ==
    LET idx == next_idx(r.vocab)
    IN  [text_values |-> replace_chunks(r.text_values, pair, idx),
         tokens |-> r.tokens,
         vocab |-> r.vocab,
         merges |-> dict_set(r.merges, pair, idx),
         i |-> next_iteration(r.i),
         pc |-> "train"]

\* One iteration that merges pair: the text rewritten, the new token
\* appended, the merge recorded under the pair.
merge_pair(r, pair) ==
    LET idx == next_idx(r.vocab)
    IN  [text_values |-> replace_chunks(r.text_values, pair, idx),
         tokens |-> Append(r.tokens, idx),
         vocab |-> vocab_add(r.vocab, idx, pair),
         merges |-> dict_set(r.merges, pair, idx),
         i |-> next_iteration(r.i),
         pc |-> "train"]

\* Every state one step of the training loop can lead to from r.
run_next(r, target) ==
    IF r.pc # "train" THEN {}
    ELSE IF ~loop_continues(r.i, num_merges(target))
         THEN {[r EXCEPT !.pc = "done"]}
    ELSE IF get_stats(r.text_values) = <<>>
         THEN {[r EXCEPT !.pc = "error"]}
    ELSE {merge_pair(r, pair) : pair \in max_choices(get_stats(r.text_values))}

\* ------------------------------------------------------- Encoder, Decoder

adjacent_pairs(symbols) ==
    {<<symbols[n], symbols[n + 1]>> : n \in 1..(Len(symbols) - 1)}

\* The ranks (positions in the merge list) of the pairs present in symbols.
present_ranks(symbols, merges) ==
    {n \in 1..Len(merges) : merges[n].k \in adjacent_pairs(symbols)}

\* A variant of lowest_rank: the rule learned last goes first.
highest_rank(ranks) == CHOOSE m \in ranks : \A n \in ranks : m >= n

\* The rule to apply among those present: the one learned earliest.
lowest_rank(ranks) == SetMin(ranks)

\* A variant of encode_chunk: one pass with the present pair of lowest rank,
\* and no more.
encode_chunk_once(symbols, merges) ==
    IF Len(symbols) <= 1 \/ present_ranks(symbols, merges) = {} THEN symbols
    ELSE LET n == lowest_rank(present_ranks(symbols, merges))
         IN  replace_pairs(symbols, merges[n].k, merges[n].v)

\* Within one chunk: apply the present pair of lowest rank, until no present
\* pair has a rule or one symbol is left.
RECURSIVE encode_chunk(_, _)
encode_chunk(symbols, merges) ==
    IF Len(symbols) <= 1 \/ present_ranks(symbols, merges) = {} THEN symbols
    ELSE LET n == lowest_rank(present_ranks(symbols, merges))
         IN  encode_chunk(replace_pairs(symbols, merges[n].k, merges[n].v), merges)

\* The same passes, keeping what the chunk held before each of them and at
\* the end.
RECURSIVE encode_run(_, _)
encode_run(symbols, merges) ==
    IF Len(symbols) <= 1 \/ present_ranks(symbols, merges) = {} THEN <<symbols>>
    ELSE LET n == lowest_rank(present_ranks(symbols, merges))
         IN  <<symbols>> \o
                 encode_run(replace_pairs(symbols, merges[n].k, merges[n].v), merges)

\* encode, chunk by chunk: the text segmented, each chunk encoded on its own.
encode_chunks(text, merges) ==
    LET chunks == categories(text)
    IN  [c \in 1..Len(chunks) |-> encode_chunk(chunks[c], merges)]

encode(text, vocabulary, merges) == Flatten(encode_chunks(text, merges))

known_tokens(tokens, vocabulary) == \A n \in 1..Len(tokens) : tokens[n] \in DOMAIN vocabulary

\* decode: each symbol replaced by its stored expansion, concatenated.
decode(tokens, vocabulary) ==
    Flatten([n \in 1..Len(tokens) |-> vocabulary[tokens[n]]])

\* A variant of decode_result: the bytes decoded before the unknown ID are
\* handed back with the error.
decode_result_partial(tokens, vocabulary) ==
    IF known_tokens(tokens, vocabulary)
    THEN [io |-> "decoded", out |-> decode(tokens, vocabulary)]
    ELSE LET bad == SetMin({n \in 1..Len(tokens) : tokens[n] \notin DOMAIN vocabulary})
         IN  [io |-> "unknown_token",
              out |-> decode(SubSeq(tokens, 1, bad - 1), vocabulary)]

\* What a decode call ends with: the bytes, or UnknownTokenError and no bytes
\* when an ID is not in the vocabulary.
decode_result(tokens, vocabulary) ==
    IF known_tokens(tokens, vocabulary)
    THEN [io |-> "decoded", out |-> decode(tokens, vocabulary)]
    ELSE [io |-> "unknown_token", out |-> <<>>]

\* The persisted state: the pairs of the merge list, in rank order.
persisted_pairs(merges) == [n \in 1..Len(merges) |-> merges[n].k]

\* The merge list read back: the pair at position n (from 1) makes the ID
\* 256 + (n - 1).
loaded_merges(pairs) ==
    [n \in 1..Len(pairs) |-> [k |-> pairs[n], v |-> FirstMergeId + (n - 1)]]

\* The vocabulary read back from the first n pairs: the 256 bytes, then
\* each pair's ID with the expansion of its left part followed by that of
\* its right part.
RECURSIVE loaded_vocab(_, _)
loaded_vocab(pairs, n) ==
    IF n = 0 THEN byte_vocab
    ELSE CHOOSE result \in
             {[s \in DOMAIN prev \cup {FirstMergeId + (n - 1)} |->
                  IF s = FirstMergeId + (n - 1)
                  THEN prev[pairs[n][1]] \o prev[pairs[n][2]]
                  ELSE prev[s]] :
                 prev \in {loaded_vocab(pairs, n - 1)}} :
             TRUE

\* A variant of valid_target: any positive size is let through.
valid_target_positive(target) == target > 0

\* train's check of its target: the 256 byte symbols cannot be given up.
valid_target(target) == target >= FirstMergeId

\* ------------------------------------------------------------------ state

VARIABLES
    text,               \* the training corpus, as bytes
    target_vocab_size,  \* the token budget
    text_values,        \* the chunks, each a sequence of symbols
    tokens,             \* the symbols seen in the text, then every new ID
    vocab,              \* symbol -> its byte expansion
    merges,             \* pair -> new ID, in the order learned
    i,                  \* the loop counter of the training loop
    pc,                 \* "called", "train", "done" (returned), "error"
                        \* (raised) or "config_error" (target refused)
    enc_in,             \* the text last handed to encode
    enc_chunks,         \* encode's result for it, chunk by chunk
    dec_in,             \* the token sequence last handed to decode
    dec_out,            \* decode's result for that token sequence
    io,                 \* "idle", "encoded", "decoded", "unknown_token"
    second,             \* a second training run on the same input
    workers             \* the per-chunk workers of a parallel training step

vars ==
    <<text, target_vocab_size, text_values, tokens, vocab, merges, i, pc,
      enc_in, enc_chunks, dec_in, dec_out, io, second, workers>>

train_vars == <<text_values, tokens, vocab, merges, i, pc>>
codec_vars == <<enc_in, enc_chunks, dec_in, dec_out, io>>

\* No worker has started: nothing counted, no pair selected.
idle_workers ==
    [phase |-> "count", counted |-> <<>>, stats |-> <<>>, pair |-> <<>>,
     idx |-> 0, before |-> <<>>, rewritten |-> {}]

\* The first training run, as one record.
run ==
    [text_values |-> text_values, tokens |-> tokens, vocab |-> vocab,
     merges |-> merges, i |-> i, pc |-> pc]

Becomes(r) ==
    /\ text_values' = r.text_values
    /\ tokens' = r.tokens
    /\ vocab' = r.vocab
    /\ merges' = r.merges
    /\ i' = r.i
    /\ pc' = r.pc

Init ==
    /\ text \in Corpora
    /\ target_vocab_size \in Targets
    /\ text_values = start_run(text).text_values
    /\ tokens = start_run(text).tokens
    /\ vocab = start_run(text).vocab
    /\ merges = start_run(text).merges
    /\ i = start_run(text).i
    /\ pc = start_run(text).pc
    /\ enc_in = <<>>
    /\ enc_chunks = <<>>
    /\ dec_in = <<>>
    /\ dec_out = <<>>
    /\ io = "idle"
    /\ second = start_run(text)
    /\ workers = idle_workers

\* train has been called and has not yet looked at its target, which may be
\* any size.
InitCalled ==
    /\ text \in Corpora
    /\ target_vocab_size \in AnyTargets
    /\ text_values = start_run(text).text_values
    /\ tokens = start_run(text).tokens
    /\ vocab = start_run(text).vocab
    /\ merges = start_run(text).merges
    /\ i = start_run(text).i
    /\ pc = "called"
    /\ enc_in = <<>>
    /\ enc_chunks = <<>>
    /\ dec_in = <<>>
    /\ dec_out = <<>>
    /\ io = "idle"
    /\ second = start_run(text)
    /\ workers = idle_workers

\* A tokenizer about to be trained on nothing, with no merge asked for.
InitUntrained ==
    /\ text = <<>>
    /\ target_vocab_size = FirstMergeId
    /\ text_values = start_run(text).text_values
    /\ tokens = start_run(text).tokens
    /\ vocab = start_run(text).vocab
    /\ merges = start_run(text).merges
    /\ i = start_run(text).i
    /\ pc = start_run(text).pc
    /\ enc_in = <<>>
    /\ enc_chunks = <<>>
    /\ dec_in = <<>>
    /\ dec_out = <<>>
    /\ io = "idle"
    /\ second = start_run(text)
    /\ workers = idle_workers

\* train accepts its target and enters the loop.
TrainEnter ==
    /\ pc = "called"
    /\ valid_target(target_vocab_size)
    /\ pc' = "train"
    /\ UNCHANGED <<text, target_vocab_size, text_values, tokens, vocab,
                   merges, i, codec_vars, second, workers>>

\* train refuses its target: ConfigurationError, and nothing is returned.
TrainReject ==
    /\ pc = "called"
    /\ ~valid_target(target_vocab_size)
    /\ pc' = "config_error"
    /\ UNCHANGED <<text, target_vocab_size, text_values, tokens, vocab,
                   merges, i, codec_vars, second, workers>>

\* One iteration of the loop: stats, the best pair, the merge.
TrainStep ==
    /\ pc = "train"
    /\ loop_continues(i, num_merges(target_vocab_size))
    /\ get_stats(text_values) # <<>>
    /\ \E pair \in max_choices(get_stats(text_values)) :
          Becomes(merge_pair(run, pair))
    /\ UNCHANGED <<text, target_vocab_size, codec_vars, second, workers>>

\* The loop has run num_merges times: training returns.
TrainFinish ==
    /\ pc = "train"
    /\ ~loop_continues(i, num_merges(target_vocab_size))
    /\ pc' = "done"
    /\ UNCHANGED <<text, target_vocab_size, text_values, tokens, vocab,
                   merges, i, codec_vars, second, workers>>

\* An iteration that finds no pair occurring more than once: max() of the
\* empty dictionary raises ValueError.
TrainRaise ==
    /\ pc = "train"
    /\ loop_continues(i, num_merges(target_vocab_size))
    /\ get_stats(text_values) = <<>>
    /\ pc' = "error"
    /\ UNCHANGED <<text, target_vocab_size, text_values, tokens, vocab,
                   merges, i, codec_vars, second, workers>>

\* encode(x, vocab, merges) with the trained state. (The model follows one
\* call, or one encode-decode round trip, per trained tokenizer: a call reads
\* the trained state and nothing it leaves behind is read by a later one.)
Encode ==
    /\ pc = "done"
    /\ io = "idle"
    /\ \E x \in Inputs \cup {text} :
          /\ enc_in' = x
          /\ enc_chunks' = encode_chunks(x, merges)
    /\ dec_in' = <<>>
    /\ dec_out' = <<>>
    /\ io' = "encoded"
    /\ UNCHANGED <<text, target_vocab_size, train_vars, second, workers>>

\* encode of a text that exercises the Segmenter.
EncodeSegmented ==
    /\ pc = "done"
    /\ io = "idle"
    /\ \E x \in SegTexts :
          /\ enc_in' = x
          /\ enc_chunks' = encode_chunks(x, merges)
    /\ dec_in' = <<>>
    /\ dec_out' = <<>>
    /\ io' = "encoded"
    /\ UNCHANGED <<text, target_vocab_size, train_vars, second, workers>>

\* decode of the token sequence encode returned: the bytes, or
\* UnknownTokenError and no bytes when an ID is not in the vocabulary.
Decode ==
    /\ io = "encoded"
    /\ dec_in' = Flatten(enc_chunks)
    /\ dec_out' = decode_result(Flatten(enc_chunks), vocab).out
    /\ io' = decode_result(Flatten(enc_chunks), vocab).io
    /\ UNCHANGED <<text, target_vocab_size, train_vars, enc_in, enc_chunks, second, workers>>

\* A variant of DecodeTokens: an unknown ID is entered in the vocabulary
\* with an empty expansion before the call fails.
DecodeTokensPatching ==
    /\ pc = "done"
    /\ io = "idle"
    /\ \E toks \in TokenSeqs :
          /\ dec_in' = toks
          /\ dec_out' = decode_result(toks, vocab).out
          /\ io' = decode_result(toks, vocab).io
          /\ vocab' = [s \in DOMAIN vocab \cup Range(toks) |->
                          IF s \in DOMAIN vocab THEN vocab[s] ELSE <<>>]
    /\ enc_in' = <<>>
    /\ enc_chunks' = <<>>
    /\ UNCHANGED <<text, target_vocab_size, text_values, tokens, merges, i, pc,
                   second, workers>>

\* decode of a token sequence that comes from anywhere.
DecodeTokens ==
    /\ pc = "done"
    /\ io = "idle"
    /\ \E toks \in TokenSeqs :
          /\ dec_in' = toks
          /\ dec_out' = decode_result(toks, vocab).out
          /\ io' = decode_result(toks, vocab).io
    /\ enc_in' = <<>>
    /\ enc_chunks' = <<>>
    /\ UNCHANGED <<text, target_vocab_size, train_vars, second, workers>>

\* One step of the second run, which shares nothing but the input.
SecondStep ==
    /\ \E r \in run_next(second, target_vocab_size) : second' = r
    /\ UNCHANGED <<text, target_vocab_size, train_vars, codec_vars, workers>>

\* One worker finishes counting the pairs of its chunk and delivers its
\* table. Workers finish in any order.
WorkerCounts ==
    /\ pc = "train"
    /\ loop_continues(i, num_merges(target_vocab_size))
    /\ workers.phase = "count"
    /\ \E c \in 1..Len(text_values) :
          /\ \A m \in 1..Len(workers.counted) : workers.counted[m].chunk # c
          /\ workers' = [workers EXCEPT !.counted =
                 Append(@, [chunk |-> c,
                            stats |-> count_pairs(text_values[c], 1, <<>>)])]
    /\ UNCHANGED <<text, target_vocab_size, train_vars, codec_vars, second>>

\* Every table is in: they are added up and the pair to merge is selected.
SelectPair ==
    /\ pc = "train"
    /\ loop_continues(i, num_merges(target_vocab_size))
    /\ workers.phase = "count"
    /\ Len(workers.counted) = Len(text_values)
    /\ stats_gt_1(aggregate(workers.counted)) # <<>>
    /\ workers' = [phase |-> "rewrite",
                   counted |-> <<>>,
                   stats |-> aggregate(workers.counted),
                   pair |-> max_key(stats_gt_1(aggregate(workers.counted))),
                   idx |-> next_idx(vocab),
                   before |-> text_values,
                   rewritten |-> {}]
    /\ UNCHANGED <<text, target_vocab_size, train_vars, codec_vars, second>>

\* Every table is in and no pair occurs more than once: max() raises.
SelectRaise ==
    /\ pc = "train"
    /\ loop_continues(i, num_merges(target_vocab_size))
    /\ workers.phase = "count"
    /\ Len(workers.counted) = Len(text_values)
    /\ stats_gt_1(aggregate(workers.counted)) = <<>>
    /\ pc' = "error"
    /\ workers' = idle_workers
    /\ UNCHANGED <<text, target_vocab_size, text_values, tokens, vocab,
                   merges, i, codec_vars, second>>

\* One worker rewrites its chunk with the selected pair. Workers finish in
\* any order; each chunk keeps its place.
WorkerRewrites ==
    /\ pc = "train"
    /\ workers.phase = "rewrite"
    /\ \E c \in (1..Len(text_values)) \ workers.rewritten :
          /\ text_values' = [text_values EXCEPT ![c] =
                 replace_pairs(@, workers.pair, workers.idx)]
          /\ workers' = [workers EXCEPT !.rewritten = @ \cup {c}]
    /\ UNCHANGED <<text, target_vocab_size, tokens, vocab, merges, i, pc,
                   codec_vars, second>>

\* Every chunk is rewritten: the token, the vocabulary entry and the merge
\* are recorded and the iteration ends.
MergeDone ==
    /\ pc = "train"
    /\ workers.phase = "rewrite"
    /\ workers.rewritten = 1..Len(text_values)
    /\ tokens' = Append(tokens, workers.idx)
    /\ vocab' = vocab_add(vocab, workers.idx, workers.pair)
    /\ merges' = dict_set(merges, workers.pair, workers.idx)
    /\ i' = next_iteration(i)
    /\ workers' = idle_workers
    /\ UNCHANGED <<text, target_vocab_size, text_values, pc, codec_vars, second>>

Next == TrainStep \/ TrainFinish \/ TrainRaise \/ Encode \/ Decode

Spec == Init /\ [][Next]_vars

\* Two training runs on the same input, interleaved in any order.
PairNext == TrainStep \/ TrainFinish \/ TrainRaise \/ SecondStep

TwoRuns == Init /\ [][PairNext]_vars

\* Training alone, whose loop always takes its next step.
LiveNext == TrainStep \/ TrainFinish \/ TrainRaise

Live == Init /\ [][LiveNext]_vars /\ WF_vars(LiveNext)

\* train called with any target, valid or not.
CalledNext == TrainEnter \/ TrainReject \/ TrainStep \/ TrainFinish \/ TrainRaise

Configuring == InitCalled /\ [][CalledNext]_vars

\* The byte-level tokenizer (no merges) encoding the Segmenter's test texts.
SegNext == TrainFinish \/ EncodeSegmented

Segmenting == InitUntrained /\ [][SegNext]_vars

\* Training, then encode and decode calls of every kind.
ServeNext ==
    TrainStep \/ TrainFinish \/ TrainRaise \/ Encode \/ Decode \/ DecodeTokens

Serving == Init /\ [][ServeNext]_vars

\* Training with per-chunk workers for the counting and the rewriting.
ParallelNext ==
    \/ WorkerCounts
    \/ SelectPair
    \/ SelectRaise
    \/ WorkerRewrites
    \/ MergeDone
    \/ TrainFinish

Parallel == Init /\ [][ParallelNext]_vars

\* ------------------------------------------------- vocabulary of the claims

\* The places where two symbols stand side by side: <<chunk, index>>.
Positions(chunks) ==
    UNION {{<<c, n>> : n \in 1..(Len(chunks[c]) - 1)} : c \in 1..Len(chunks)}

PairAt(chunks, pos) == <<chunks[pos[1]][pos[2]], chunks[pos[1]][pos[2] + 1]>>

PairsIn(chunks) == {PairAt(chunks, pos) : pos \in Positions(chunks)}

OccurrencesOf(chunks, q) == {pos \in Positions(chunks) : PairAt(chunks, pos) = q}

Count(chunks, q) == Cardinality(OccurrencesOf(chunks, q))

\* pos1 comes before pos2 in a scan of the chunks in order, left to right.
Before(pos1, pos2) ==
    pos1[1] < pos2[1] \/ (pos1[1] = pos2[1] /\ pos1[2] < pos2[2])

FirstPosition(chunks, q) ==
    CHOOSE pos \in OccurrencesOf(chunks, q) :
        \A o \in OccurrencesOf(chunks, q) : o = pos \/ Before(pos, o)

\* The pairs whose count no pair's count exceeds.
TopPairs(chunks) ==
    {q \in PairsIn(chunks) : \A r \in PairsIn(chunks) : Count(chunks, r) <= Count(chunks, q)}

NoRepeatedPair(chunks) == \A q \in PairsIn(chunks) : Count(chunks, q) <= 1

\* A step of the first run that records a merge, and the pair it records.
RecordsMerge == Len(merges') = Len(merges) + 1
RecordedPair == merges'[Len(merges')].k

Terminal == pc \in {"done", "error"}

\* The number of symbols over all chunks.
TotalSymbols(chunks) == Len(Flatten(chunks))

\* A sequence of symbols with every idx written back as the pair it stands
\* for.
RECURSIVE Unmerged(_, _, _)
Unmerged(symbols, pair, idx) ==
    IF symbols = <<>> THEN <<>>
    ELSE (IF Head(symbols) = idx THEN pair ELSE <<Head(symbols)>>)
             \o Unmerged(Tail(symbols), pair, idx)

\* The pair and the symbol of the merge a step records.
RecordedIdx == merges'[Len(merges')].v

\* Both halves of a pair are the same symbol.
Doubled(pair) == pair[1] = pair[2]

\* The occurrences of q inside one chunk, and their sum over the chunks.
InChunk(chunk, q) ==
    Cardinality({n \in 1..(Len(chunk) - 1) : <<chunk[n], chunk[n + 1]>> = q})

RECURSIVE SumInChunks(_, _)
SumInChunks(chunks, q) ==
    IF chunks = <<>> THEN 0
    ELSE InChunk(Head(chunks), q) + SumInChunks(Tail(chunks), q)

\* Where chunk c begins and ends in the text the chunks were cut from.
ChunkStart(chunks, c) == 1 + Len(Flatten(SubSeq(chunks, 1, c - 1)))
ChunkEnd(chunks, c) == Len(Flatten(SubSeq(chunks, 1, c)))

\* For each of the six category rules, in the order listed, the end of the
\* longest match the rule has from a position on (0: it has none there).
RuleEnds(s, from) ==
    <<contraction_end(s, from),
      prefixed_run_end(s, from, "L"),
      prefixed_run_end(s, from, "N"),
      prefixed_run_end(s, from, "O"),
      space_not_followed_end(s, from),
      IF RunEnd(s, from, "s") >= from THEN RunEnd(s, from, "s") ELSE 0>>

\* The end of the longest match any rule has there.
LongestEnd(s, from) ==
    CHOOSE e \in Range(RuleEnds(s, from)) :
        \A f \in Range(RuleEnds(s, from)) : f <= e

\* The end of the match of the earliest-listed rule that matches there.
FirstRuleEnd(s, from) ==
    RuleEnds(s, from)[SetMin({n \in 1..6 : RuleEnds(s, from)[n] # 0})]

\* Chunk c is whitespace and the character after it is whitespace too: the
\* chunk is a whitespace run without the run's last character.
LeavesSpaceBehind(s, chunks, c) ==
    /\ \A n \in 1..Len(chunks[c]) : IsSpace(chunks[c][n])
    /\ ChunkEnd(chunks, c) < Len(s)
    /\ IsSpace(s[ChunkEnd(chunks, c) + 1])

\* The positions of s that hold a whitespace character with a character
\* that is not whitespace right after it.
BeforeRun(s) == {p \in 1..(Len(s) - 1) : IsSpace(s[p]) /\ ~IsSpace(s[p + 1])}

\* The end of the run of one class that begins right after position p.
RunBehind(s, p) == RunEnd(s, p + 1, ClassOf(s[p + 1]))

\* Two tables hold the same pairs with the same counts.
SameCounts(a, b) == Range(a) = Range(b)

\* The first run's state with the chunks as they were when the pair was
\* selected.
RunBefore == [run EXCEPT !.text_values = workers.before]

\* The first run's state after the step.
RunAfter ==
    [text_values |-> text_values', tokens |-> tokens', vocab |-> vocab',
     merges |-> merges', i |-> i', pc |-> pc']

\* The last symbol of chunk c with the first symbol of chunk c + 1.
BoundaryPair(chunks, c) == <<chunks[c][Len(chunks[c])], chunks[c + 1][1]>>

\* ------------------------------------------------------------------ claims

\* C1: round trip. For every text x handed to encode with a vocabulary and
\* merge list that training returned, decode of the result does not fail and
\* gives back exactly the bytes of x.
C1_RoundTrip ==
    io \in {"decoded", "unknown_token"} => (io = "decoded" /\ dec_out = enc_in)

\* A text other than the corpus was encoded into at least one merged symbol
\* and decoded.
C1_Witness ==
    /\ io = "decoded"
    /\ enc_in # text
    /\ \E n \in 1..Len(Flatten(enc_chunks)) : Flatten(enc_chunks)[n] >= FirstMergeId

C4_TieBreak ==
    [][(RecordsMerge /\ Cardinality(TopPairs(text_values)) >= 2)
          => /\ RecordedPair \in TopPairs(text_values)
             /\ \A q \in TopPairs(text_values) \ {RecordedPair} :
                   Before(FirstPosition(text_values, RecordedPair),
                          FirstPosition(text_values, q))]_vars

\* The first merge was chosen among several pairs with the highest count.
C4_Witness ==
    /\ Len(merges) >= 1
    /\ Cardinality(TopPairs(categories(text))) >= 2
    /\ Count(categories(text), merges[1].k) >= 2

\* C5: stopping rule. As soon as no pair occurs more than once, training
\* stops normally and records no further merge; and no merge is ever
\* recorded for a pair that occurs only once.
C5_StoppingRule ==
    [][/\ (pc = "train" /\ NoRepeatedPair(text_values))
             => (pc' = "done" /\ merges' = merges)
       /\ RecordsMerge => Count(text_values, RecordedPair) > 1]_vars

\* C6: target bound. The vocabulary never holds more than target_vocab_size
\* symbols, the merge list never more than target_vocab_size - 256 rules, and
\* with target 256 training returns the 256 byte symbols and no merge.
C6_TargetBound ==
    /\ Cardinality(DOMAIN vocab) <= target_vocab_size
    /\ Len(merges) <= target_vocab_size - 256
    /\ (target_vocab_size = 256 /\ pc # "train")
          => /\ pc = "done"
             /\ DOMAIN vocab = 0..255
             /\ \A s \in 0..255 : vocab[s] = <<s>>
             /\ merges = <<>>

\* Training returned with the vocabulary filled up to a target above 257.
C6_Witness ==
    /\ pc = "done"
    /\ target_vocab_size >= 258
    /\ Cardinality(DOMAIN vocab) = target_vocab_size

C8_WorkedExample ==
    text = ExampleChar
        => /\ merges \in {<<>>,
                          <<[k |-> <<97, 98>>, v |-> 256]>>,
                          <<[k |-> <<97, 98>>, v |-> 256], [k |-> <<256, 99>>, v |-> 257]>>}
           /\ (Terminal /\ target_vocab_size >= 258)
                 => /\ Len(merges) = 2
                    /\ text_values = <<<<256, 257, 257, 100>>>>
                    /\ tokens = <<97, 98, 99, 100, 256, 257>>

\* Training on 'ababcabcd' with a target of exactly two merges returned.
C8_Witness ==
    /\ text = ExampleChar
    /\ target_vocab_size = 258
    /\ pc = "done"

\* C9: vocabulary expansion. Every symbol below 256 expands to its own byte,
\* and every symbol from 256 on has a merge rule and expands to the expansion
\* of the rule's left symbol followed by that of its right symbol.
C9_VocabularyExpansion ==
    \A s \in DOMAIN vocab :
        IF s < 256 THEN vocab[s] = <<s>>
        ELSE \E n \in 1..Len(merges) :
                /\ merges[n].v = s
                /\ vocab[s] = vocab[merges[n].k[1]] \o vocab[merges[n].k[2]]

\* A merged symbol whose left part is itself a merged symbol.
C9_Witness ==
    \E n \in 1..Len(merges) :
        /\ merges[n].k[1] >= 256
        /\ merges[n].v \in DOMAIN vocab
        /\ Len(vocab[merges[n].v]) >= 3

\* C10: symbol IDs. Whenever a step changes the merge list or the
\* vocabulary: the rule at rank k (from 0) creates symbol 256 + k, so no
\* merge gets an ID below 256 and IDs rise by one with no gap; and a rule or
\* a vocabulary entry, once there, is not changed or removed.
C10_SymbolIds ==
    [][(merges' # merges \/ vocab' # vocab)
          => /\ \A n \in 1..Len(merges') : merges'[n].v = 256 + (n - 1)
             /\ Len(merges) <= Len(merges')
             /\ \A n \in 1..Len(merges) : merges'[n] = merges[n]
             /\ DOMAIN vocab' = 0..(255 + Len(merges'))
             /\ \A s \in DOMAIN vocab :
                   s \in DOMAIN vocab' /\ vocab'[s] = vocab[s]]_vars

\* Three merges were recorded, the last under ID 258.
C10_Witness ==
    /\ Len(merges) >= 3
    /\ merges[3].v = 258

\* C11: growth per merge. Every step that records a merge makes the
\* vocabulary larger by exactly one symbol and leaves the total number of
\* symbols over all chunks no larger than it was.
C11_GrowthPerMerge ==
    [][RecordsMerge
          => /\ Cardinality(DOMAIN vocab') = Cardinality(DOMAIN vocab) + 1
             /\ TotalSymbols(text_values') <= TotalSymbols(text_values)]_vars

\* A second merge was recorded, and the chunks hold fewer symbols than the
\* text has bytes.
C11_Witness ==
    /\ Len(merges) >= 2
    /\ Cardinality(DOMAIN vocab) = FirstMergeId + 2
    /\ TotalSymbols(text_values) < Len(text)

\* The ranks of the rules whose pair stands somewhere in symbols.
RanksPresent(symbols) ==
    {n \in 1..Len(merges) : merges[n].k \in PairsIn(<<symbols>>)}

\* passes is one chunk's encoding, pass by pass: each pass rewrites the pair
\* of the lowest rank present, and the last sequence has no rule left.
LowestRankFirst(passes) ==
    /\ \A j \in 1..(Len(passes) - 1) :
          /\ RanksPresent(passes[j]) # {}
          /\ \E m \in RanksPresent(passes[j]) :
                /\ \A n \in RanksPresent(passes[j]) : m <= n
                /\ passes[j + 1] = replace_pairs(passes[j], merges[m].k, merges[m].v)
    /\ RanksPresent(passes[Len(passes)]) = {}

\* C12: encode uses rank, not frequency. In every chunk encode rewrites, at
\* each pass, the pair of the lowest rank among the pairs then present, and
\* returns what is left when none is; with (a,b) -> 256 learned before
\* (b,c) -> 257, the chunk 'a b c' encodes as 256 c.
C12_RankNotFrequency ==
    io = "encoded"
        => /\ \A c \in 1..Len(enc_chunks) :
                 /\ LowestRankFirst(encode_run(categories(enc_in)[c], merges))
                 /\ enc_chunks[c] =
                        encode_run(categories(enc_in)[c], merges)[
                            Len(encode_run(categories(enc_in)[c], merges))]
           /\ (/\ Len(merges) = 2
               /\ merges[1] = [k |-> <<97, 98>>, v |-> 256]
               /\ merges[2] = [k |-> <<98, 99>>, v |-> 257]
               /\ enc_in = ExampleAbc)
                 => enc_chunks = <<<<256, 99>>>>

\* 'abc' was encoded with (a,b) -> 256 learned first and (b,c) -> 257 second.
C12_Witness ==
    /\ io = "encoded"
    /\ enc_in = ExampleAbc
    /\ Len(merges) = 2
    /\ merges[1].k = <<97, 98>>
    /\ merges[2].k = <<98, 99>>

\* part stands in whole, as consecutive bytes, somewhere inside whole.
OccursIn(part, whole) ==
    \E k \in 0..(Len(whole) - Len(part)) :
        SubSeq(whole, k + 1, k + Len(part)) = part

Covers(chunks, input) ==
    /\ \A c \in 1..Len(chunks) : chunks[c] # <<>>
    /\ Flatten(chunks) = input

\* C14: Segmenter total coverage. For the training text and for every text
\* handed to encode, the chunks are non-empty and their concatenation, in
\* order, is the input: every byte lies in exactly one chunk.
C14_SegmenterCoverage ==
    /\ Covers(categories(text), text)
    /\ Covers(categories(enc_in), enc_in)

\* Two spaces before a word: the Segmenter cut the text into ' ' and ' as'.
C14_Witness ==
    /\ io = "encoded"
    /\ enc_in = <<32, 32, 97, 115>>
    /\ enc_chunks = <<<<32>>, <<32, 97, 115>>>>

\* C15: train called with a target below 256 fails with ConfigurationError:
\* the only step such a call takes is the refusal, which learns nothing, and
\* it never returns a vocabulary or a merge list.
C15_ConfigurationError ==
    [][target_vocab_size < 256
          => /\ pc = "called"
             /\ pc' = "config_error"
             /\ merges' = <<>>
             /\ UNCHANGED <<text_values, tokens, vocab, i, codec_vars>>]_vars

\* A call with target 255 was refused.
C15_Witness ==
    /\ target_vocab_size = 255
    /\ pc = "config_error"

\* C16: decode of a token sequence with an ID that is not in the vocabulary
\* fails with UnknownTokenError and returns no bytes, wherever the ID
\* stands; a sequence of known IDs is decoded.
C16_UnknownToken ==
    io \in {"decoded", "unknown_token"}
        => IF \E n \in 1..Len(dec_in) : dec_in[n] \notin DOMAIN vocab
           THEN io = "unknown_token" /\ dec_out = <<>>
           ELSE io = "decoded"

\* decode failed on a sequence whose first ID is known and whose last is not.
C16_Witness ==
    /\ io = "unknown_token"
    /\ Len(dec_in) >= 2
    /\ dec_in[1] \in DOMAIN vocab
    /\ dec_in[Len(dec_in)] \notin DOMAIN vocab

\* C17: encode never produces an unknown token. Every symbol encode returns
\* is in the vocabulary, and decode of an encode result never fails.
C17_EncodeKnownTokens ==
    /\ \A c \in 1..Len(enc_chunks) : \A n \in 1..Len(enc_chunks[c]) :
          enc_chunks[c][n] \in DOMAIN vocab
    /\ (io = "unknown_token") => dec_in # Flatten(enc_chunks)

\* The emoji text was encoded into bytes above 127 and merged symbols.
C17_Witness ==
    /\ io = "encoded"
    /\ enc_in = ExampleByte
    /\ \E c \in 1..Len(enc_chunks) : \E n \in 1..Len(enc_chunks[c]) :
          enc_chunks[c][n] >= FirstMergeId

\* C18: the vocabulary is one-to-one. No two symbols have the same
\* expansion: there are as many different expansions as symbols.
C18_VocabularyOneToOne ==
    Cardinality({vocab[s] : s \in DOMAIN vocab}) = Cardinality(DOMAIN vocab)

\* Training returned two merged symbols whose expansions have the same length.
C18_Witness ==
    /\ pc = "done"
    /\ \E m, n \in 1..Len(merges) :
          /\ m < n
          /\ Len(vocab[merges[m].v]) = Len(vocab[merges[n].v])

\* C19: the persisted state is sufficient. From the ordered list of pairs
\* alone, with position k (from 0) given the ID 256 + k, the vocabulary and
\* the merge list read back are the ones train returned, and encode with
\* them gives what encode gave.
C19_PersistedState ==
    pc = "done"
        => /\ loaded_merges(persisted_pairs(merges)) = merges
           /\ loaded_vocab(persisted_pairs(merges), Len(merges)) = vocab
           /\ io = "encoded"
                 => encode_chunks(enc_in, loaded_merges(persisted_pairs(merges)))
                        = enc_chunks

\* A text was encoded into merged symbols after training returned at least
\* two merges.
C19_Witness ==
    /\ pc = "done"
    /\ Len(merges) >= 2
    /\ io = "encoded"
    /\ \E c \in 1..Len(enc_chunks) : \E n \in 1..Len(enc_chunks[c]) :
          enc_chunks[c][n] > FirstMergeId

\* C20: read-only after training. Once train has returned, every step, an
\* encode call or a decode call that succeeds or fails, leaves the
\* vocabulary and the merge list as they are.
C20_ReadOnly ==
    [][pc = "done" => (vocab' = vocab /\ merges' = merges /\ pc' = "done")]_vars

\* After at least one merge a decode call failed, and the vocabulary still
\* holds the bytes and the merged symbols and nothing else.
C20_Witness ==
    /\ pc = "done"
    /\ Len(merges) >= 1
    /\ io = "unknown_token"
    /\ Cardinality(DOMAIN vocab) = FirstMergeId + Len(merges)

\* C21: parallel counting and rewriting. With one worker per chunk, the
\* workers finishing in any order: the table added up from theirs holds the
\* pairs and counts of the single-threaded get_stats; the pair selected, or
\* the failure to select one, is the single-threaded one; and the iteration
\* ends in the state the single-threaded iteration ends in.
C21_ParallelCounting ==
    [][/\ (workers.phase = "count" /\ workers'.phase = "rewrite")
           => /\ SameCounts(workers'.stats, get_stats_all(text_values))
              /\ get_stats(text_values) # <<>>
              /\ workers'.pair = max_key(get_stats(text_values))
       /\ (pc = "train" /\ pc' = "error")
           => get_stats(text_values) = <<>>
       /\ (workers.phase = "rewrite" /\ workers'.phase = "count")
           => RunAfter = merge_pair(RunBefore, workers.pair)]_vars

\* A parallel iteration has merged one of two pairs that had the highest
\* count and first occur in different chunks, and in the next iteration the
\* worker of a later chunk has delivered its table before that of an earlier
\* one.
C21_Witness ==
    /\ Len(merges) = 1
    /\ workers.phase = "count"
    /\ Len(workers.counted) >= 2
    /\ workers.counted[1].chunk > workers.counted[2].chunk
    /\ \E q \in TopPairs(categories(text)) :
          /\ q # merges[1].k
          /\ FirstPosition(categories(text), q)[1]
                 # FirstPosition(categories(text), merges[1].k)[1]

\* C22: the pair merged has the highest count. In every step that records a
\* merge, no pair has more adjacent occurrences over all chunks, before the
\* step, than the pair recorded.
C22_HighestCount ==
    [][RecordsMerge
          => /\ RecordedPair \in PairsIn(text_values)
             /\ \A q \in PairsIn(text_values) :
                   Count(text_values, q) <= Count(text_values, RecordedPair)]_vars

\* A merge was made of a pair that occurred more often than another pair
\* which also occurred more than once.
C22_Witness ==
    /\ Len(merges) >= 1
    /\ \E q \in PairsIn(categories(text)) :
          /\ Count(categories(text), q) >= 2
          /\ Count(categories(text), q) < Count(categories(text), merges[1].k)

\* C23: the rewrite is left to right and does not overlap. In every step
\* that records a merge of pair as idx, each chunk afterwards (a) is the
\* chunk before with idx standing for pair, (b) holds no occurrence of pair,
\* and (c) has no idx whose left neighbour could have started an occurrence
\* one place earlier; 'aaa' with (a, a) becomes idx followed by a.
C23_LeftToRight ==
    [][RecordsMerge
          => /\ \A c \in 1..Len(text_values) :
                   /\ Unmerged(text_values'[c], RecordedPair, RecordedIdx)
                         = text_values[c]
                   /\ RecordedPair \notin adjacent_pairs(text_values'[c])
                   /\ \A n \in 2..Len(text_values'[c]) :
                         ~(/\ text_values'[c][n] = RecordedIdx
                           /\ Doubled(RecordedPair)
                           /\ text_values'[c][n - 1] = RecordedPair[1])
             /\ text_values = <<<<97, 97, 97>>>>
                   => text_values' = <<<<RecordedIdx, 97>>>>]_vars

\* 'aaa' was rewritten with (a, a): the new symbol, then the a left over.
C23_Witness ==
    /\ text = <<97, 97, 97>>
    /\ Len(merges) = 1
    /\ merges[1].k = <<97, 97>>
    /\ text_values = <<<<merges[1].v, 97>>>>

C25_EncodeFixpoint ==
    io \in {"encoded", "decoded"}
        => /\ Len(enc_chunks) = Len(categories(enc_in))
           /\ \A c \in 1..Len(enc_chunks) :
                 \/ Len(enc_chunks[c]) <= 1
                 \/ \A q \in adjacent_pairs(enc_chunks[c]) : ~dict_has(merges, q)
           /\ \A c \in 1..Len(enc_chunks) :
                 (\A q \in adjacent_pairs(categories(enc_in)[c]) : ~dict_has(merges, q))
                     => enc_chunks[c] = categories(enc_in)[c]

\* encode returned a chunk of two symbols or more, one of them merged in two
\* passes, and another chunk was returned as it came because none of its
\* pairs has a rule.
C25_Witness ==
    /\ io = "encoded"
    /\ \E c \in 1..Len(enc_chunks) :
          /\ Len(enc_chunks[c]) >= 2
          /\ \E n \in 1..Len(enc_chunks[c]) : enc_chunks[c][n] > FirstMergeId
    /\ \E c \in 1..Len(enc_chunks) :
          /\ Len(enc_chunks[c]) >= 2
          /\ enc_chunks[c] = categories(enc_in)[c]

\* C26, as stated: longest match. Every chunk the Segmenter emits ends where
\* the longest match of any category rule at the chunk's start ends.
C26_LongestMatch ==
    io = "encoded"
        => \A c \in 1..Len(enc_chunks) :
              ChunkEnd(enc_chunks, c)
                  = LongestEnd(enc_in, ChunkStart(enc_chunks, c))

\* C26, amended: first rule that matches. Every chunk the Segmenter emits
\* ends where the match of the earliest-listed category rule that matches at
\* the chunk's start ends. That is the longest match of any rule there,
\* except when a whitespace run of two characters or more stands before a
\* non-whitespace character: the chunk is the run without its last
\* character, one shorter than the match of the last rule.
C26_FirstRuleMatch ==
    io = "encoded"
        => \A c \in 1..Len(enc_chunks) :
              /\ ChunkEnd(enc_chunks, c)
                    = FirstRuleEnd(enc_in, ChunkStart(enc_chunks, c))
              /\ IF LeavesSpaceBehind(enc_in, enc_chunks, c)
                 THEN LongestEnd(enc_in, ChunkStart(enc_chunks, c))
                          = ChunkEnd(enc_chunks, c) + 1
                 ELSE LongestEnd(enc_in, ChunkStart(enc_chunks, c))
                          = ChunkEnd(enc_chunks, c)

\* Two whitespace characters stood before a word: the Segmenter emitted the
\* first alone, and the second, a space, with the word.
C26_Witness ==
    /\ io = "encoded"
    /\ \E c \in 1..(Len(enc_chunks) - 1) :
          /\ LeavesSpaceBehind(enc_in, enc_chunks, c)
          /\ enc_chunks[c + 1][1] = 32
          /\ Len(enc_chunks[c + 1]) >= 2
          /\ IsLetter(enc_chunks[c + 1][2])

\* C27, as stated: any leading whitespace character is joined. A run of
\* letters, numerals or other characters right after a whitespace character,
\* whichever it is, is one chunk with exactly that whitespace character.
C27_AnyLeadingWhitespace ==
    io = "encoded"
        => \A p \in BeforeRun(enc_in) :
              \E c \in 1..Len(enc_chunks) :
                  /\ ChunkStart(enc_chunks, c) = p
                  /\ ChunkEnd(enc_chunks, c) = RunBehind(enc_in, p)

\* C27, amended: only a leading space is joined. A run of letters, numerals
\* or other characters right after a space (byte 32) is one chunk with
\* exactly that space; right after any other whitespace character the run
\* begins a chunk of its own, and that character ends the chunk before.
C27_LeadingSpace ==
    io = "encoded"
        => \A p \in BeforeRun(enc_in) :
              \E c \in 1..Len(enc_chunks) :
                  IF enc_in[p] = 32
                  THEN /\ ChunkStart(enc_chunks, c) = p
                       /\ ChunkEnd(enc_chunks, c) = RunBehind(enc_in, p)
                  ELSE /\ ChunkStart(enc_chunks, c) = p + 1
                       /\ enc_chunks[c][1] = enc_in[p + 1]

\* The Segmenter cut a text in which one word stands after a tab and another
\* after a space.
C27_Witness ==
    /\ io = "encoded"
    /\ \E p, q \in BeforeRun(enc_in) :
          /\ enc_in[p] = 9
          /\ enc_in[q] = 32
          /\ IsLetter(enc_in[p + 1])
          /\ IsLetter(enc_in[q + 1])
          /\ <<9>> \in Range(enc_chunks)

\* C28: training preserves bytes. In every state of training, each chunk's
\* symbols, every one replaced by its expansion in the vocabulary, spell the
\* bytes the chunk had when the Segmenter cut it, and all chunks together
\* spell the text.
C28_PreservesBytes ==
    /\ \A c \in 1..Len(text_values) :
          /\ known_tokens(text_values[c], vocab)
          /\ decode(text_values[c], vocab) = categories(text)[c]
    /\ decode(Flatten(text_values), vocab) = text

\* After two merges some chunk of a text of several chunks holds a symbol
\* that stands for three bytes or more.
C28_Witness ==
    /\ Len(merges) >= 2
    /\ Len(text_values) >= 2
    /\ \E c \in 1..Len(text_values) : \E n \in 1..Len(text_values[c]) :
          /\ text_values[c][n] >= FirstMergeId
          /\ Len(vocab[text_values[c][n]]) >= 3

\* C29: a merged pair never comes back. No pair in the merge list stands
\* side by side in any chunk, in the state right after its merge or in any
\* later one; so every iteration that merges adds a new entry, and no pair is
\* in the list twice.
C29_NeverComesBack ==
    /\ \A n \in 1..Len(merges) : merges[n].k \notin PairsIn(text_values)
    /\ \A m, n \in 1..Len(merges) : merges[m].k = merges[n].k => m = n
    /\ Len(merges) = i

\* Two merges were made, and a half of the first merged pair is still a
\* symbol of the text.
C29_Witness ==
    /\ Len(merges) >= 2
    /\ \/ merges[1].k[1] \in Range(Flatten(text_values))
       \/ merges[1].k[2] \in Range(Flatten(text_values))

\* C30: length reduction. In every step that records a merge of (l, r), a
\* chunk in which get_stats counts the pair n times gets shorter by exactly n
\* when l # r, by at least 1 and at most n when l = r, and stays as it is
\* when n = 0.
C30_LengthReduction ==
    [][RecordsMerge
          => \A c \in 1..Len(text_values) :
                LET n == dict_get(get_stats_all(<<text_values[c]>>), RecordedPair, 0)
                    d == Len(text_values[c]) - Len(text_values'[c])
                IN  IF n = 0 THEN text_values'[c] = text_values[c]
                    ELSE IF ~Doubled(RecordedPair) THEN d = n
                    ELSE d >= 1 /\ d <= n]_vars

\* A pair of two equal symbols was merged in a chunk that is now shorter by
\* less than the pair's count there.
C30_Witness ==
    /\ Len(merges) = 1
    /\ Doubled(merges[1].k)
    /\ \E c \in 1..Len(text_values) :
          Len(categories(text)[c]) - Len(text_values[c])
              < InChunk(categories(text)[c], merges[1].k)

====
